---------------------------- MODULE Spec2Model ----------------------------
(***************************************************************************)
(* Error correcting codes of error_correctors.py: ReedSolomon, Viterbi and *)
(* ConcatenatedViterbiRS, with the noisy channels of simulation.py.        *)
(*                                                                         *)
(* A bitstring (a Python str of "0"/"1") is a sequence of 0/1.  A Python   *)
(* value handed to decode is a record [ty, v, et]: its type, its elements  *)
(* and, for a list, the type of every element.  A call's outcome is a      *)
(* record [exc, val, trellis]: the exception raised ("none" when the call  *)
(* returns), the tuple of returned values, and whether the trellis Decoder *)
(* was invoked during the call; rsdec: whether ReedSolomon.decode was.     *)
(* calls counts the calls made so far on the instance self.                *)
(***************************************************************************)
EXTENDS Integers, Sequences, FiniteSets, TLC

VARIABLES self, msg, wire, ret, pc, nerr, calls

vars == <<self, msg, wire, ret, pc, nerr, calls>>

(***************************************************************************)
(* Bounds of the model.                                                    *)
(***************************************************************************)
\* longest message given to Viterbi.encode, in bits
MaxBits == 4
\* most channel corruptions (bit flips, noised floats) on one Viterbi stream
MaxFlips == 1
\* the channel corrupts positions among the first MaxFlipPos of a stream
MaxFlipPos == 8
\* longest message given to ReedSolomon.encode, in symbols
MaxSyms == 4
\* most symbols the channel hits in one Reed-Solomon stream
MaxSymErrs == 2
\* longest message given to ConcatenatedViterbiRS.encode, in symbols
MaxCatSyms == 1
\* an instance is used for a further message while fewer than MaxCalls calls
\* have been made on it
MaxCalls == 3

(***************************************************************************)
(* Python values.                                                          *)
(***************************************************************************)
Str(v) == [ty |-> "str", v |-> v, et |-> <<>>]

FloatList(v) == [ty |-> "list", v |-> v, et |-> [i \in 1..Len(v) |-> "float"]]

Return(vals) == [exc |-> "none", val |-> vals, trellis |-> FALSE, rsdec |-> FALSE]

Raise(e) == [exc |-> e, val |-> <<>>, trellis |-> FALSE, rsdec |-> FALSE]

NoRet == [exc |-> "none", val |-> <<>>, trellis |-> FALSE, rsdec |-> FALSE]

\* "0" * m : the empty string when m <= 0
ZeroString(m) == IF m <= 0 THEN << >> ELSE [i \in 1..m |-> 0]

\* all bitstrings of exactly m bits
BitStringsOfLen(m) == [1..m -> {0, 1}]

BitStrings(maxlen) == UNION {BitStringsOfLen(m) : m \in 0..maxlen}

Pow2(e) == 2 ^ e

(***************************************************************************)
(* viterbi module: the convolutional encoder (rate 1/2).  The register     *)
(* holds the newest input bit in its top position, above the k-1 state     *)
(* bits; a generator is the set of register positions it taps.             *)
(***************************************************************************)
Generators(k) ==
  IF k = 2 THEN << {1, 0}, {1} >>
  ELSE << {4, 1, 0}, {4, 3, 2, 0} >>

RECURSIVE Parity(_, _, _)
Parity(reg, taps, pos) ==
  IF pos < 0 THEN 0
  ELSE LET rest == Parity(reg, taps, pos - 1)
       IN  IF pos \in taps THEN (rest + ((reg \div Pow2(pos)) % 2)) % 2 ELSE rest

NumStates(k) == Pow2(k - 1)

\* one step of the shift register: <<output pair, next state>>
bit_encoder(k, input_bit, current_state) ==
  LET reg == input_bit * Pow2(k - 1) + current_state
      g   == Generators(k)
  IN  [out  |-> << Parity(reg, g[1], k - 1), Parity(reg, g[2], k - 1) >>,
       next |-> reg \div 2]

\* the register state before input bit i: the k-1 bits before it, the newest
\* on top, zeros before the start of the stream
RECURSIVE StateBefore(_, _, _, _)
StateBefore(k, input_stream, i, back) ==
  IF back > k - 1 THEN 0
  ELSE (IF i - back >= 1 THEN input_stream[i - back] * Pow2(k - 1 - back) ELSE 0)
       + StateBefore(k, input_stream, i, back + 1)

\* the list of output pairs, from the all-zero state
stream_encoder(k, input_stream) ==
  [i \in 1..Len(input_stream) |->
     bit_encoder(k, input_stream[i], StateBefore(k, input_stream, i, 1)).out]

(***************************************************************************)
(* viterbi module: the trellis decoder.                                    *)
(***************************************************************************)
\* the metric of an unreachable state (+infinity); real metrics are >= 0
Inf == -1

MetricLess(a, b) == IF a = Inf THEN FALSE ELSE IF b = Inf THEN TRUE ELSE a < b

MetricAdd(a, b) == IF a = Inf THEN Inf ELSE a + b

Abs(x) == IF x < 0 THEN -x ELSE x

\* distance between an expected output bit and an observed value
BitDistance(expected, observed, is_hard) ==
  IF is_hard THEN Abs(expected - observed)
  ELSE ((1 - 2 * expected) - observed) * ((1 - 2 * expected) - observed)

BranchMetric(k, pred, bit, pair, is_hard) ==
  LET out == bit_encoder(k, bit, pred).out
  IN  BitDistance(out[1], pair[1], is_hard) + BitDistance(out[2], pair[2], is_hard)

\* the two transitions into state s, in enumeration order
Incoming(k, s) ==
  LET bit  == s \div Pow2(k - 2)
      low  == (2 * s) % Pow2(k - 1)
  IN  IF k = 2 THEN << [pred |-> 0, bit |-> s], [pred |-> 1, bit |-> s] >>
      ELSE << [pred |-> low, bit |-> bit], [pred |-> low + 1, bit |-> bit] >>

\* add-compare-select for destination state s (states are numbered from 0,
\* pm is indexed from 1); the first minimum is kept
Select(k, pm, pair, is_hard, s) ==
  LET inc == Incoming(k, s)
      m1  == MetricAdd(pm[inc[1].pred + 1], BranchMetric(k, inc[1].pred, inc[1].bit, pair, is_hard))
      m2  == MetricAdd(pm[inc[2].pred + 1], BranchMetric(k, inc[2].pred, inc[2].bit, pair, is_hard))
  IN  IF MetricLess(m2, m1)
      THEN [metric |-> m2, pred |-> inc[2].pred, bit |-> inc[2].bit]
      ELSE [metric |-> m1, pred |-> inc[1].pred, bit |-> inc[1].bit]

RECURSIVE StageUpTo(_, _, _, _, _)
StageUpTo(k, pm, pair, is_hard, s) ==
  IF s < 0 THEN << >>
  ELSE Append(StageUpTo(k, pm, pair, is_hard, s - 1), Select(k, pm, pair, is_hard, s))

InitialMetrics(k) == [s \in 1..NumStates(k) |-> IF s = 1 THEN 0 ELSE Inf]

RECURSIVE MetricsOf(_, _)
MetricsOf(stage, s) ==
  IF s = 0 THEN << >> ELSE Append(MetricsOf(stage, s - 1), stage[s].metric)

\* the stages lo..hi of the trellis, in order, from the path metrics pm of
\* stage lo-1 (the range is halved only to keep the evaluation shallow)
RECURSIVE Trellis(_, _, _, _, _, _)
Trellis(k, input_stream, is_hard, lo, hi, pm) ==
  IF lo = hi
  THEN << StageUpTo(k, pm, input_stream[lo], is_hard, NumStates(k) - 1) >>
  ELSE LET mid   == (lo + hi) \div 2
           left  == Trellis(k, input_stream, is_hard, lo, mid, pm)
           right == Trellis(k, input_stream, is_hard, mid + 1, hi,
                            MetricsOf(left[Len(left)], NumStates(k)))
       IN  IF Len(left) = mid - lo + 1 THEN left \o right ELSE << >>

\* the final state with the least metric, the first one on a tie
RECURSIVE BestFrom(_, _, _)
BestFrom(stage, s, best) ==
  IF s > Len(stage) THEN best
  ELSE BestFrom(stage, s + 1, IF MetricLess(stage[s].metric, stage[best].metric) THEN s ELSE best)

\* the input bits of stages lo..hi on the surviving path that ends in state s
\* after stage hi, and the state that path is in before stage lo
RECURSIVE Traceback(_, _, _, _)
Traceback(stages, lo, hi, s) ==
  IF lo = hi
  THEN [bits |-> << stages[lo][s + 1].bit >>, from |-> stages[lo][s + 1].pred]
  ELSE LET mid   == (lo + hi) \div 2
           right == Traceback(stages, mid + 1, hi, s)
           left  == Traceback(stages, lo, mid, right.from)
       IN  IF Len(right.bits) = hi - mid
           THEN [bits |-> left.bits \o right.bits, from |-> left.from]
           ELSE [bits |-> << >>, from |-> s]

\* the most likely input bits for the observed pairs
Decoder(k, input_stream, is_hard) ==
  IF Len(input_stream) = 0 THEN << >>
  ELSE LET stages == Trellis(k, input_stream, is_hard, 1, Len(input_stream),
                             InitialMetrics(k))
           best   == BestFrom(stages[Len(stages)], 1, 1) - 1
       IN  Traceback(stages, 1, Len(stages), best).bits

(***************************************************************************)
(* class Viterbi.                                                          *)
(***************************************************************************)
Flatten(list_output) ==
  [i \in 1..(2 * Len(list_output)) |-> list_output[(i + 1) \div 2][2 - (i % 2)]]

\* Viterbi.encode with the first bit of every pair written twice
Viterbi_encode_FirstBitTwice(k, input_bitstring) ==
  LET list_output == stream_encoder(k, input_bitstring)
  IN  [i \in 1..(2 * Len(list_output)) |-> list_output[(i + 1) \div 2][1]]

\* Viterbi.encode: the two bits of every output pair, in emission order
Viterbi_encode(k, input_bitstring) == Flatten(stream_encoder(k, input_bitstring))

\* the pairing loop of Viterbi.decode
Pairs(input) == [i \in 1..(Len(input) \div 2) |-> << input[2 * i - 1], input[2 * i] >>]

\* the type checks without the check of the elements of the list
TypeError_ListOnly(soft, input) ==
  IF soft THEN input.ty # "list" ELSE input.ty # "str"

\* the type checks at the head of Viterbi.decode and ConcatenatedViterbiRS.decode
TypeError(soft, input) ==
  IF soft
  THEN input.ty # "list" \/ \E i \in 1..Len(input.et) : input.et[i] # "float"
  ELSE input.ty # "str"

\* Viterbi.decode with "and" for "or" in the test of the length
Viterbi_decode_AndGuard(k, soft, input) ==
  IF TypeError(soft, input) THEN Raise("ValueError")
  ELSE IF Len(input.v) % 2 # 0 /\ Len(input.v) < k
       THEN Return(<< ZeroString(Len(input.v) - k), FALSE >>)
       ELSE [Return(<< Decoder(k, Pairs(input.v), ~soft), TRUE >>) EXCEPT !.trellis = TRUE]

\* Viterbi.decode
Viterbi_decode(k, soft, input) ==
  IF TypeError(soft, input) THEN Raise("ValueError")
  ELSE IF Len(input.v) % 2 # 0 \/ Len(input.v) < k
       THEN Return(<< ZeroString(Len(input.v) - k), FALSE >>)
       ELSE [Return(<< Decoder(k, Pairs(input.v), ~soft), TRUE >>) EXCEPT !.trellis = TRUE]

(***************************************************************************)
(* bitstring_utils: eight bits per symbol, most significant bit first.     *)
(***************************************************************************)
RECURSIVE BitsToInt(_)
BitsToInt(bits) ==
  IF bits = << >> THEN 0
  ELSE 2 * BitsToInt(SubSeq(bits, 1, Len(bits) - 1)) + bits[Len(bits)]

IntToBits(sym) == [i \in 1..8 |-> (sym \div Pow2(8 - i)) % 2]

Min(a, b) == IF a < b THEN a ELSE b

Max(a, b) == IF a < b THEN b ELSE a

\* ceil(a / b)
CeilDiv(a, b) == (a + b - 1) \div b

\* one symbol per group of eight bits (a shorter last group is read as the
\* binary number it spells)
bitstring_to_ascii(bitstring) ==
  [i \in 1..CeilDiv(Len(bitstring), 8) |->
     BitsToInt(SubSeq(bitstring, 8 * i - 7, Min(8 * i, Len(bitstring))))]

RECURSIVE ascii_to_bitstring(_)
ascii_to_bitstring(symbols) ==
  IF symbols = << >> THEN << >>
  ELSE IntToBits(Head(symbols)) \o ascii_to_bitstring(Tail(symbols))

(***************************************************************************)
(* unireedsolomon: GF(2^8) with primitive polynomial 0x11b and generator   *)
(* 3, through its antilog and log tables.                                  *)
(***************************************************************************)
GF_exptable ==
  <<
    1, 3, 5, 15, 17, 51, 85, 255, 26, 46, 114, 150, 161, 248, 19, 53,
    95, 225, 56, 72, 216, 115, 149, 164, 247, 2, 6, 10, 30, 34, 102, 170,
    229, 52, 92, 228, 55, 89, 235, 38, 106, 190, 217, 112, 144, 171, 230, 49,
    83, 245, 4, 12, 20, 60, 68, 204, 79, 209, 104, 184, 211, 110, 178, 205,
    76, 212, 103, 169, 224, 59, 77, 215, 98, 166, 241, 8, 24, 40, 120, 136,
    131, 158, 185, 208, 107, 189, 220, 127, 129, 152, 179, 206, 73, 219, 118, 154,
    181, 196, 87, 249, 16, 48, 80, 240, 11, 29, 39, 105, 187, 214, 97, 163,
    254, 25, 43, 125, 135, 146, 173, 236, 47, 113, 147, 174, 233, 32, 96, 160,
    251, 22, 58, 78, 210, 109, 183, 194, 93, 231, 50, 86, 250, 21, 63, 65,
    195, 94, 226, 61, 71, 201, 64, 192, 91, 237, 44, 116, 156, 191, 218, 117,
    159, 186, 213, 100, 172, 239, 42, 126, 130, 157, 188, 223, 122, 142, 137, 128,
    155, 182, 193, 88, 232, 35, 101, 175, 234, 37, 111, 177, 200, 67, 197, 84,
    252, 31, 33, 99, 165, 244, 7, 9, 27, 45, 119, 153, 176, 203, 70, 202,
    69, 207, 74, 222, 121, 139, 134, 145, 168, 227, 62, 66, 198, 81, 243, 14,
    18, 54, 90, 238, 41, 123, 141, 140, 143, 138, 133, 148, 167, 242, 13, 23,
    57, 75, 221, 124, 132, 151, 162, 253, 28, 36, 108, 180, 199, 82, 246
  >>

GF_logtable ==
  <<
    0, 25, 1, 50, 2, 26, 198, 75, 199, 27, 104, 51, 238, 223, 3, 100,
    4, 224, 14, 52, 141, 129, 239, 76, 113, 8, 200, 248, 105, 28, 193, 125,
    194, 29, 181, 249, 185, 39, 106, 77, 228, 166, 114, 154, 201, 9, 120, 101,
    47, 138, 5, 33, 15, 225, 36, 18, 240, 130, 69, 53, 147, 218, 142, 150,
    143, 219, 189, 54, 208, 206, 148, 19, 92, 210, 241, 64, 70, 131, 56, 102,
    221, 253, 48, 191, 6, 139, 98, 179, 37, 226, 152, 34, 136, 145, 16, 126,
    110, 72, 195, 163, 182, 30, 66, 58, 107, 40, 84, 250, 133, 61, 186, 43,
    121, 10, 21, 155, 159, 94, 202, 78, 212, 172, 229, 243, 115, 167, 87, 175,
    88, 168, 80, 244, 234, 214, 116, 79, 174, 233, 213, 231, 230, 173, 232, 44,
    215, 117, 122, 235, 22, 11, 245, 89, 203, 95, 176, 156, 169, 81, 160, 127,
    12, 246, 111, 23, 196, 73, 236, 216, 67, 31, 45, 164, 118, 123, 183, 204,
    187, 62, 90, 251, 96, 177, 134, 59, 82, 161, 108, 170, 85, 41, 157, 151,
    178, 135, 144, 97, 190, 220, 252, 188, 149, 207, 205, 55, 63, 91, 209, 83,
    57, 132, 60, 65, 162, 109, 71, 20, 42, 158, 93, 86, 242, 211, 171, 68,
    17, 146, 217, 35, 32, 46, 137, 180, 124, 184, 38, 119, 153, 227, 165, 103,
    74, 237, 222, 197, 49, 254, 24, 13, 99, 140, 128, 192, 247, 112, 7
  >>

\* alpha^e
GF_exp(e) == GF_exptable[(e % 255) + 1]

GF_log(a) == GF_logtable[a]

GF_mul(a, b) == IF a = 0 \/ b = 0 THEN 0 ELSE GF_exp(GF_log(a) + GF_log(b))

\* a / b, for b # 0
GF_div(a, b) == IF a = 0 THEN 0 ELSE GF_exp(GF_log(a) + 255 - GF_log(b))

\* addition in GF(2^8): bitwise exclusive or
RECURSIVE GF_add(_, _)
GF_add(a, b) ==
  IF a = 0 THEN b
  ELSE IF b = 0 THEN a
  ELSE ((a + b) % 2) + 2 * GF_add(a \div 2, b \div 2)

\* the polynomial p (highest degree first) times (x + root)
PolyTimesRoot(p, root) ==
  [i \in 1..(Len(p) + 1) |->
     GF_add(IF i <= Len(p) THEN p[i] ELSE 0,
            IF i > 1 THEN GF_mul(p[i - 1], root) ELSE 0)]

\* the generator polynomial with roots alpha^1 .. alpha^nroots
RECURSIVE GeneratorPoly(_)
GeneratorPoly(nroots) ==
  IF nroots = 0 THEN << 1 >>
  ELSE PolyTimesRoot(GeneratorPoly(nroots - 1), GF_exp(nroots))

\* the value at x of the first i coefficients of p (highest degree first)
RECURSIVE PolyEvalTo(_, _, _)
PolyEvalTo(p, x, i) ==
  IF i = 0 THEN 0 ELSE GF_add(GF_mul(PolyEvalTo(p, x, i - 1), x), p[i])

PolyEval(p, x) == PolyEvalTo(p, x, Len(p))

\* the remainder of m(x) * x^(Len(g)-1) divided by g, by long division;
\* rem is the remainder so far, Len(g)-1 symbols
RECURSIVE PolyRemainder(_, _, _, _)
PolyRemainder(m, g, i, rem) ==
  IF i > Len(m) THEN rem
  ELSE LET fb == GF_add(m[i], rem[1])
       IN  PolyRemainder(m, g, i + 1,
             [j \in 1..Len(rem) |->
                GF_add(IF j < Len(rem) THEN rem[j + 1] ELSE 0, GF_mul(fb, g[j + 1]))])

Zeros(m) == IF m <= 0 THEN << >> ELSE [i \in 1..m |-> 0]

\* RSCoder.encode: the message, left-padded to k symbols, then n-k parity symbols
RSCoder_encode(n, k, message) ==
  LET m == Zeros(k - Len(message)) \o message
  IN  m \o PolyRemainder(m, GeneratorPoly(n - k), 1, Zeros(n - k))

\* the syndromes r(alpha^1) .. r(alpha^i)
RECURSIVE SyndromesTo(_, _)
SyndromesTo(r, i) ==
  IF i = 0 THEN << >> ELSE Append(SyndromesTo(r, i - 1), PolyEval(r, GF_exp(i)))

Syndromes(n, k, r) == SyndromesTo(r, n - k)

AllZero(syn) == \A i \in 1..Len(syn) : syn[i] = 0

\* r with the symbols at the positions of err (position -> error value) corrected
Corrected(r, err) ==
  [i \in 1..Len(r) |-> IF i \in DOMAIN err THEN GF_add(r[i], err[i]) ELSE r[i]]

\* the locator of position j of a word of len symbols
Locator(len, j) == GF_exp(len - j)

\* the error pattern on one position, from the first syndrome
OneError(len, syn, j) == (j :> GF_div(syn[1], Locator(len, j)))

\* the error pattern on two positions, from the first two syndromes
TwoErrors(len, syn, j1, j2) ==
  LET X1 == Locator(len, j1)
      X2 == Locator(len, j2)
      d  == GF_add(X1, X2)
  IN  (j1 :> GF_div(GF_add(syn[2], GF_mul(syn[1], X2)), GF_mul(X1, d)))
      @@ (j2 :> GF_div(GF_add(syn[2], GF_mul(syn[1], X1)), GF_mul(X2, d)))

\* the i-th syndrome of the error pattern err alone
RECURSIVE ErrorSyndrome(_, _, _, _)
ErrorSyndrome(len, err, left, i) ==
  IF left = {} THEN 0
  ELSE LET j == CHOOSE x \in left : TRUE
       IN  GF_add(GF_mul(err[j], GF_exp((len - j) * i)),
                  ErrorSyndrome(len, err, left \ {j}, i))

Explains(len, syn, err) ==
  /\ \A j \in DOMAIN err : err[j] # 0
  /\ \A i \in 1..Len(syn) : syn[i] = ErrorSyndrome(len, err, DOMAIN err, i)

\* the error patterns within the correction bound t = floor((n-k)/2) that
\* explain the syndromes (at most one, as the minimum distance is n-k+1)
ErrorPatterns(n, k, len, syn) ==
  LET t   == (n - k) \div 2
      one == IF t >= 1 THEN {OneError(len, syn, j) : j \in 1..len} ELSE {}
      two == IF t >= 2
             THEN {TwoErrors(len, syn, q[1], q[2]) :
                     q \in {q \in (1..len) \X (1..len) : q[1] < q[2]}}
             ELSE {}
      fit1 == {e \in one : Explains(len, syn, e)}
  IN  IF fit1 # {} THEN fit1 ELSE {e \in two : Explains(len, syn, e)}

\* RSCoder.decode(r, nostrip = True)[0]: the data symbols, or a failure when
\* no error pattern within the bound explains the syndromes
RSCoder_decode(n, k, r) ==
  LET syn == Syndromes(n, k, r)
  IN  IF AllZero(syn)
      THEN [ok |-> TRUE, data |-> SubSeq(r, 1, Len(r) - (n - k))]
      ELSE LET pats == ErrorPatterns(n, k, Len(r), syn)
           IN  IF pats = {} THEN [ok |-> FALSE, data |-> << >>]
               ELSE LET c == Corrected(r, CHOOSE e \in pats : TRUE)
                        d == SubSeq(c, 1, Len(c) - (n - k))
                    IN  [ok |-> TRUE, data |-> Zeros(k - Len(d)) \o d]

(***************************************************************************)
(* class ReedSolomon.                                                      *)
(***************************************************************************)
\* Python's true division a / b of two ints, as a fraction in lowest terms
TrueDivBy2(a) ==
  IF a % 2 = 0 THEN [ty |-> "float", num |-> a \div 2, den |-> 1]
  ELSE [ty |-> "float", num |-> a, den |-> 2]

\* ReedSolomon.strength
strength(n, k) == TrueDivBy2(n - k)

\* ReedSolomon.bitstring_to_codewords: chunks of n*8 bits, as symbols
bitstring_to_codewords(n, bitstring) ==
  [c \in 1..CeilDiv(Len(bitstring), n * 8) |->
     bitstring_to_ascii(SubSeq(bitstring, (c - 1) * n * 8 + 1,
                               Min(c * n * 8, Len(bitstring))))]

\* ReedSolomon.codewords_to_bitstring
RECURSIVE codewords_to_bitstring(_)
codewords_to_bitstring(codewords) ==
  IF codewords = << >> THEN << >>
  ELSE ascii_to_bitstring(Head(codewords)) \o codewords_to_bitstring(Tail(codewords))

\* the chunk of ReedSolomon.encode that starts after i symbols: k symbols,
\* the last one padded with chr(0) on the right
Chunk(k, message_symbols, i) ==
  IF i + k > Len(message_symbols)
  THEN SubSeq(message_symbols, i + 1, Len(message_symbols))
       \o Zeros(k - (Len(message_symbols) - i))
  ELSE SubSeq(message_symbols, i + 1, i + k)

\* the codewords of ReedSolomon.encode with the loop stepping by n, not k
EncodeChunks_StepN(n, k, message_symbols) ==
  [c \in 1..CeilDiv(Len(message_symbols), n) |->
     RSCoder_encode(n, k, Chunk(k, message_symbols, (c - 1) * n))]

\* the codewords of ReedSolomon.encode, one per chunk
EncodeChunks(n, k, message_symbols) ==
  [c \in 1..CeilDiv(Len(message_symbols), k) |->
     RSCoder_encode(n, k, Chunk(k, message_symbols, (c - 1) * k))]

\* ReedSolomon.encode
ReedSolomon_encode(n, k, message_bitstring) ==
  codewords_to_bitstring(EncodeChunks(n, k, bitstring_to_ascii(message_bitstring)))

\* the turn of the loop with the library's default nostrip = False: leading
\* zero symbols of the data are stripped
RECURSIVE LStrip(_)
LStrip(symbols) ==
  IF symbols # << >> /\ Head(symbols) = 0 THEN LStrip(Tail(symbols)) ELSE symbols

RecoveredChunk_Strip(n, k, c) ==
  LET dec == RSCoder_decode(n, k, c)
  IN  IF dec.ok THEN [symbols |-> LStrip(dec.data), raised |-> FALSE]
      ELSE [symbols |-> SubSeq(c, 1, Min(k, Len(c))), raised |-> TRUE]

\* the turn of the loop that keeps the data symbols as received
RecoveredChunk_Uncorrected(n, k, c) ==
  [symbols |-> SubSeq(c, 1, Min(k, Len(c))), raised |-> ~RSCoder_decode(n, k, c).ok]

\* one turn of the loop of ReedSolomon.decode on codeword c: the recovered
\* symbols, and whether the library call raised
RecoveredChunk(n, k, c) ==
  LET dec == RSCoder_decode(n, k, c)
  IN  IF dec.ok THEN [symbols |-> dec.data, raised |-> FALSE]
      ELSE [symbols |-> SubSeq(c, 1, Min(k, Len(c))), raised |-> TRUE]

\* the loop with correctable set on success too: the last codeword decides
RECURSIVE DecodeLoop_LastFlag(_, _, _, _)
DecodeLoop_LastFlag(n, k, codewords, i) ==
  IF i = 0 THEN [recovered_bitstring |-> << >>, correctable |-> TRUE]
  ELSE LET before == DecodeLoop_LastFlag(n, k, codewords, i - 1)
           chunk  == RecoveredChunk(n, k, codewords[i])
       IN  [recovered_bitstring |->
              before.recovered_bitstring \o ascii_to_bitstring(chunk.symbols),
            correctable |-> ~chunk.raised]

\* the loop of ReedSolomon.decode over the first i codewords
RECURSIVE DecodeLoop(_, _, _, _)
DecodeLoop(n, k, codewords, i) ==
  IF i = 0 THEN [recovered_bitstring |-> << >>, correctable |-> TRUE]
  ELSE LET before == DecodeLoop(n, k, codewords, i - 1)
           chunk  == RecoveredChunk(n, k, codewords[i])
       IN  [recovered_bitstring |->
              before.recovered_bitstring \o ascii_to_bitstring(chunk.symbols),
            correctable |-> IF chunk.raised THEN FALSE ELSE before.correctable]

\* ReedSolomon.decode
ReedSolomon_decode(n, k, encoded_bitstring) ==
  LET codewords == bitstring_to_codewords(n, encoded_bitstring)
      done      == DecodeLoop(n, k, codewords, Len(codewords))
  IN  [Return(<< done.recovered_bitstring, done.correctable >>) EXCEPT !.rsdec = TRUE]

\* c1 != c2 for a character c1 of a str and an element c2 of the tuple that
\* decode returns: the first element is a str, equal to c1 only when it is
\* that one character; the second is a bool, which no str equals
CharDiffers(c1, recovered, i) ==
  IF i = 1 THEN recovered[1] # << c1 >> ELSE TRUE

\* ReedSolomon.check: the number it prints as "Total errors".
\* recovered_bitstring is what decode returns, the tuple (bitstring, flag);
\* zip stops at the shorter of the message and the tuple.
check(n, k, test_message_bitstring) ==
  LET codewords           == ReedSolomon_encode(n, k, test_message_bitstring)
      recovered_bitstring == ReedSolomon_decode(n, k, codewords).val
      zipped == 1..Min(Len(test_message_bitstring), Len(recovered_bitstring))
  IN  Cardinality({i \in zipped :
        CharDiffers(test_message_bitstring[i], recovered_bitstring, i)})

(***************************************************************************)
(* class ConcatenatedViterbiRS.                                            *)
(***************************************************************************)
\* ConcatenatedViterbiRS.encode: the tuple of returned values
ConcatenatedViterbiRS_encode(vk, n, k, input_bitstring) ==
  LET rs_encoded    == ReedSolomon_encode(n, k, input_bitstring)
      final_encoded == Viterbi_encode(vk, rs_encoded)
  IN  Return(<< final_encoded >>)

\* ConcatenatedViterbiRS.decode with the flag of the outer layer alone
ConcatenatedViterbiRS_decode_OuterFlag(vk, n, k, soft, input) ==
  IF TypeError(soft, input) THEN Raise("ValueError")
  ELSE LET vit == Viterbi_decode(vk, soft, input)
           rs  == ReedSolomon_decode(n, k, vit.val[1])
       IN  [exc     |-> "none",
            val     |-> << rs.val[1], rs.val[2] >>,
            trellis |-> vit.trellis,
            rsdec   |-> TRUE]

\* ConcatenatedViterbiRS.decode
ConcatenatedViterbiRS_decode(vk, n, k, soft, input) ==
  IF TypeError(soft, input) THEN Raise("ValueError")
  ELSE LET vit == Viterbi_decode(vk, soft, input)
           rs  == ReedSolomon_decode(n, k, vit.val[1])
       IN  [exc     |-> "none",
            val     |-> << rs.val[1], vit.val[2] /\ rs.val[2] >>,
            trellis |-> vit.trellis,
            rsdec   |-> TRUE]

(***************************************************************************)
(* simulation.py: the noisy channels.  flips is the set of positions the   *)
(* random draw corrupts.                                                   *)
(***************************************************************************)
\* HardDecodingNoisyChannelSimulator.noise_bitstring
noise_bitstring(encoded_bitstring, flips) ==
  [i \in 1..Len(encoded_bitstring) |->
     IF i \in flips THEN 1 - encoded_bitstring[i] ELSE encoded_bitstring[i]]

\* SoftDecodingNoisyChannelSimulator.noise_bitstring: bit 1 is sent as -1,
\* bit 0 as +1; noise[i] is the sample added at a corrupted position
soft_noise_bitstring(encoded_bitstring, noise) ==
  [i \in 1..Len(encoded_bitstring) |->
     LET mu == IF encoded_bitstring[i] = 1 THEN -1 ELSE 1
     IN  IF i \in DOMAIN noise THEN mu + noise[i] ELSE mu]

\* the sets of corrupted positions the model draws: at most MaxFlips of the
\* first MaxFlipPos positions of the stream
FlipSets(len) ==
  {F \in SUBSET (1..Min(len, MaxFlipPos)) : Cardinality(F) <= MaxFlips}

\* the bit positions of the symbols P, each symbol hit at the offsets of mask
SymbolFlips(P, mask) == {8 * (p - 1) + b : p \in P, b \in mask}

\* the symbols the model's channel hits: at most MaxSymErrs of the first
\* MaxFlipPos symbols of the stream
SymbolSets(nsyms) ==
  {P \in SUBSET (1..Min(nsyms, MaxFlipPos)) : Cardinality(P) <= MaxSymErrs}

(***************************************************************************)
(* The instances and messages of the model.                                *)
(***************************************************************************)
Instance(cls, vk, n, k, soft) ==
  [cls |-> cls, vk |-> vk, n |-> n, k |-> k, soft |-> soft]

SymPool == {0, 210}

RECURSIVE SymbolStrings(_)
SymbolStrings(maxlen) ==
  IF maxlen = 0 THEN {<< >>}
  ELSE LET shorter == SymbolStrings(maxlen - 1)
       IN  shorter \cup {Append(m, c) : m \in shorter, c \in SymPool}

ViterbiInstances ==
  {Instance("Viterbi", vk, 0, 0, soft) : vk \in {2, 5}, soft \in BOOLEAN}

ReedSolomonInstances ==
  {Instance("ReedSolomon", 0, c[1], c[2], FALSE) : c \in {<<5, 3>>, <<4, 3>>, <<5, 1>>}}

ConcatenatedInstances ==
  {Instance("ConcatenatedViterbiRS", vk, 3, 1, soft) : vk \in {2, 5}, soft \in BOOLEAN}

Fresh ==
  /\ wire = Str(<< >>)
  /\ ret = NoRet
  /\ pc = "start"
  /\ nerr = 0
  /\ calls = 0

InitVit ==
  /\ self \in ViterbiInstances
  /\ msg \in BitStrings(MaxBits)
  /\ Fresh

InitRS ==
  /\ self \in ReedSolomonInstances
  /\ msg \in {ascii_to_bitstring(m) : m \in SymbolStrings(MaxSyms)}
  /\ Fresh

InitCat ==
  /\ self \in ConcatenatedInstances
  /\ msg \in {ascii_to_bitstring(m) : m \in SymbolStrings(MaxCatSyms)}
  /\ Fresh

InitDec == InitVit \/ InitCat

Init == InitVit \/ InitRS \/ InitCat

(***************************************************************************)
(* The calls.                                                              *)
(***************************************************************************)
VitEncode ==
  /\ pc = "start"
  /\ self.cls = "Viterbi"
  /\ wire' = Str(Viterbi_encode(self.vk, msg))
  /\ ret' = Return(<< Viterbi_encode(self.vk, msg) >>)
  /\ pc' = "encoded"
  /\ calls' = calls + 1
  /\ UNCHANGED <<self, msg, nerr>>

\* a decode that keeps the mode of its last input on the instance
VitDecode_StoresMode ==
  /\ pc \in {"received", "cut", "mistyped"}
  /\ self.cls = "Viterbi"
  /\ ret' = Viterbi_decode(self.vk, self.soft, wire)
  /\ self' = [self EXCEPT !.soft = (wire.ty = "list")]
  /\ pc' = "decoded"
  /\ calls' = calls + 1
  /\ UNCHANGED <<msg, wire, nerr>>

VitDecode ==
  /\ pc \in {"received", "cut", "mistyped"}
  /\ self.cls = "Viterbi"
  /\ ret' = Viterbi_decode(self.vk, self.soft, wire)
  /\ pc' = "decoded"
  /\ calls' = calls + 1
  /\ UNCHANGED <<self, msg, wire, nerr>>

RSEncode ==
  /\ pc = "start"
  /\ self.cls = "ReedSolomon"
  /\ wire' = Str(ReedSolomon_encode(self.n, self.k, msg))
  /\ ret' = Return(<< ReedSolomon_encode(self.n, self.k, msg) >>)
  /\ pc' = "encoded"
  /\ calls' = calls + 1
  /\ UNCHANGED <<self, msg, nerr>>

RSStrength ==
  /\ pc = "start"
  /\ self.cls = "ReedSolomon"
  /\ ret' = Return(<< strength(self.n, self.k) >>)
  /\ pc' = "strength"
  /\ calls' = calls + 1
  /\ UNCHANGED <<self, msg, wire, nerr>>

RSDecode ==
  /\ pc = "received"
  /\ self.cls = "ReedSolomon"
  /\ ret' = ReedSolomon_decode(self.n, self.k, wire.v)
  /\ pc' = "decoded"
  /\ calls' = calls + 1
  /\ UNCHANGED <<self, msg, wire, nerr>>

\* ReedSolomon.check returns None; val holds the error count it prints
RSCheck ==
  /\ pc = "start"
  /\ self.cls = "ReedSolomon"
  /\ ret' = Return(<< check(self.n, self.k, msg) >>)
  /\ pc' = "checked"
  /\ calls' = calls + 1
  /\ UNCHANGED <<self, msg, wire, nerr>>

CatEncode ==
  /\ pc = "start"
  /\ self.cls = "ConcatenatedViterbiRS"
  /\ ret' = ConcatenatedViterbiRS_encode(self.vk, self.n, self.k, msg)
  /\ wire' = Str(ret'.val[1])
  /\ pc' = "encoded"
  /\ calls' = calls + 1
  /\ UNCHANGED <<self, msg, nerr>>

CatDecode ==
  /\ pc \in {"received", "cut", "mistyped"}
  /\ self.cls = "ConcatenatedViterbiRS"
  /\ ret' = ConcatenatedViterbiRS_decode(self.vk, self.n, self.k, self.soft, wire)
  /\ pc' = "decoded"
  /\ calls' = calls + 1
  /\ UNCHANGED <<self, msg, wire, nerr>>

(***************************************************************************)
(* The channel between encode and decode, and what a caller may hand to    *)
(* decode instead of the stream as received.                               *)
(***************************************************************************)
\* the hard channel flips the bits at the positions F
HardChannel ==
  /\ pc = "encoded"
  /\ self.cls # "ReedSolomon"
  /\ ~self.soft
  /\ \E F \in FlipSets(Len(wire.v)) :
       /\ wire' = Str(noise_bitstring(wire.v, F))
       /\ nerr' = Cardinality(F)
  /\ pc' = "received"
  /\ UNCHANGED <<self, msg, ret, calls>>

\* the soft channel sends +1/-1 and pulls the values at F to the other bit's side
SoftChannel ==
  /\ pc = "encoded"
  /\ self.cls # "ReedSolomon"
  /\ self.soft
  /\ \E F \in FlipSets(Len(wire.v)) :
       /\ wire' = FloatList(soft_noise_bitstring(wire.v,
                     [i \in F |-> IF wire.v[i] = 1 THEN 1 ELSE -1]))
       /\ nerr' = Cardinality(F)
  /\ pc' = "received"
  /\ UNCHANGED <<self, msg, ret, calls>>

\* the hard channel under a Reed-Solomon stream: the symbols P are hit
RSChannel ==
  /\ pc = "encoded"
  /\ self.cls = "ReedSolomon"
  /\ \E P \in SymbolSets(Len(wire.v) \div 8) :
       /\ wire' = Str(noise_bitstring(wire.v, SymbolFlips(P, {8})))
       /\ nerr' = Cardinality(P)
  /\ pc' = "received"
  /\ UNCHANGED <<self, msg, ret, calls>>

\* a stream whose inner code is intact and whose outer codewords are damaged:
\* the symbols P were hit between the two encoders
InnerDamage ==
  /\ pc = "encoded"
  /\ self.cls = "ConcatenatedViterbiRS"
  /\ LET rs_encoded == ReedSolomon_encode(self.n, self.k, msg)
     IN  \E P \in SymbolSets(Len(rs_encoded) \div 8) :
           /\ P # {}
           /\ LET sent == Viterbi_encode(self.vk,
                            noise_bitstring(rs_encoded, SymbolFlips(P, {8})))
              IN  wire' = IF self.soft
                          THEN FloatList(soft_noise_bitstring(sent, << >>))
                          ELSE Str(sent)
           /\ nerr' = Cardinality(P)
  /\ pc' = "received"
  /\ UNCHANGED <<self, msg, ret, calls>>

Truncated(input) ==
  [input EXCEPT !.v  = SubSeq(input.v, 1, Len(input.v) - 1),
                !.et = SubSeq(input.et, 1, Len(input.et) - 1)]

Mistyped(input) ==
  { [input EXCEPT !.ty = "bytes"],
    IF input.ty = "str" THEN FloatList(input.v) ELSE Str(input.v) }
  \cup { [input EXCEPT !.et[i] = "int"] : i \in {1} \cap DOMAIN input.et }

\* the stream loses its last element
CutShort ==
  /\ pc = "received"
  /\ self.cls # "ReedSolomon"
  /\ nerr = 0
  /\ Len(wire.v) > 0
  /\ wire' = Truncated(wire)
  /\ pc' = "cut"
  /\ UNCHANGED <<self, msg, ret, nerr, calls>>

\* decode is handed a value of another type
WrongType ==
  /\ pc \in {"received", "cut"}
  /\ self.cls # "ReedSolomon"
  /\ nerr = 0
  /\ \E bad \in Mistyped(wire) : wire' = bad
  /\ pc' = "mistyped"
  /\ UNCHANGED <<self, msg, ret, nerr, calls>>

\* the messages the model gives to an instance of class cls
Messages(cls) ==
  IF cls = "Viterbi" THEN BitStrings(MaxBits)
  ELSE {ascii_to_bitstring(m) :
          m \in SymbolStrings(IF cls = "ReedSolomon" THEN MaxSyms ELSE MaxCatSyms)}

\* the instance is used again, for another message: nothing of the calls
\* made so far is handed to the next one but the instance itself
CallAgain ==
  /\ pc \in {"encoded", "decoded", "strength", "checked"}
  /\ calls < MaxCalls
  /\ msg' \in Messages(self.cls)
  /\ wire' = Str(<< >>)
  /\ ret' = NoRet
  /\ nerr' = 0
  /\ pc' = "start"
  /\ UNCHANGED <<self, calls>>

NextVit == VitEncode \/ VitDecode \/ HardChannel \/ SoftChannel \/ CutShort \/ WrongType

NextRS == RSEncode \/ RSStrength \/ RSCheck \/ RSChannel \/ RSDecode

NextCat ==
  \/ CatEncode \/ CatDecode \/ InnerDamage
  \/ HardChannel \/ SoftChannel \/ CutShort \/ WrongType

\* the two decoders that check the type of their input
NextDec ==
  \/ VitEncode \/ VitDecode \/ CatEncode \/ CatDecode \/ InnerDamage
  \/ HardChannel \/ SoftChannel \/ CutShort \/ WrongType

Next ==
  \/ VitEncode \/ VitDecode \/ RSEncode \/ RSStrength \/ RSCheck \/ RSDecode
  \/ CatEncode \/ CatDecode \/ InnerDamage
  \/ HardChannel \/ SoftChannel \/ RSChannel \/ CutShort \/ WrongType

\* sequences of calls on one instance
NextCalls == Next \/ CallAgain

SpecVit == InitVit /\ [][NextVit]_vars

SpecRS == InitRS /\ [][NextRS]_vars

SpecCat == InitCat /\ [][NextCat]_vars

SpecDec == InitDec /\ [][NextDec]_vars

Spec == Init /\ [][Next]_vars

SpecCalls == Init /\ [][NextCalls]_vars

(***************************************************************************)
(* The claims.                                                             *)
(***************************************************************************)
IsViterbi == self.cls = "Viterbi"

IsRS == self.cls = "ReedSolomon"

IsCat == self.cls = "ConcatenatedViterbiRS"

\* the stream handed to decode is the encoding of msg, untouched
CleanViterbi == wire = Str(Viterbi_encode(self.vk, msg))

CleanRS == wire = Str(ReedSolomon_encode(self.n, self.k, msg))

\* x followed by zero bits up to the next multiple of m bits
PaddedTo(x, m) == x \o Zeros((m - (Len(x) % m)) % m)

\* C1 as stated: in hard mode, for every bitstring x (the empty one and those
\* of 1 or 2 bits included) and k in {2,5}, decode(encode(x)) = (x, true).
C1_RoundTripEveryInput ==
  (IsViterbi /\ ~self.soft /\ pc = "decoded" /\ CleanViterbi)
    => (ret.exc = "none" /\ ret.val = << msg, TRUE >>)

\* C1 as amended: in hard mode, for every bitstring x whose encoding has at
\* least k bits (2*len(x) >= k) and k in {2,5}, decode(encode(x)) = (x, true).
C1_RoundTrip ==
  (IsViterbi /\ ~self.soft /\ pc = "decoded" /\ CleanViterbi /\ 2 * Len(msg) >= self.vk)
    => (ret.exc = "none" /\ ret.val = << msg, TRUE >>)

C1_Witness ==
  /\ IsViterbi /\ ~self.soft /\ pc = "decoded" /\ CleanViterbi
  /\ self.vk = 5 /\ msg = << 1, 0, 1, 0 >>
  /\ Len(wire.v) = 8
  /\ ret.val = << msg, TRUE >>

\* C2: for every byte-aligned x, ReedSolomon.decode(ReedSolomon.encode(x)) is
\* (x', true), x' being x followed by zero bits up to the next multiple of
\* k*8 bits: the padding of encode is not stripped.
C2_RSRoundTrip ==
  (IsRS /\ pc = "decoded" /\ CleanRS)
    => (ret.exc = "none" /\ ret.val = << PaddedTo(msg, self.k * 8), TRUE >>)

C2_Witness ==
  /\ IsRS /\ pc = "decoded" /\ CleanRS
  /\ self.n = 5 /\ self.k = 3
  /\ msg = IntToBits(210)
  /\ Len(wire.v) = 40
  /\ ret.val = << msg \o Zeros(16), TRUE >>

\* C3: for every input that passes the type checks, the flag returned by
\* ConcatenatedViterbiRS.decode is the flag of Viterbi.decode on that input
\* AND the flag of ReedSolomon.decode on the Viterbi output; a false Viterbi
\* flag never gives a true flag, and a bitstring is returned, nothing raised.
C3_FlagLaw ==
  (IsCat /\ pc = "decoded" /\ ~TypeError(self.soft, wire))
    => LET vit == Viterbi_decode(self.vk, self.soft, wire)
           rs  == ReedSolomon_decode(self.n, self.k, vit.val[1])
       IN  /\ ret.exc = "none"
           /\ Len(ret.val) = 2
           /\ ret.val[2] = (vit.val[2] /\ rs.val[2])
           /\ (~vit.val[2] => ~ret.val[2])
           /\ ret.val[1] = rs.val[1]
           /\ \A i \in 1..Len(ret.val[1]) : ret.val[1][i] \in {0, 1}

\* the inner layer fails, the outer one does not, and the whole is uncorrectable
C3_Witness ==
  /\ IsCat /\ pc = "decoded" /\ ret.exc = "none"
  /\ Len(wire.v) % 2 = 1 /\ Len(wire.v) > self.vk + 8
  /\ ~Viterbi_decode(self.vk, self.soft, wire).val[2]
  /\ ReedSolomon_decode(self.n, self.k, Viterbi_decode(self.vk, self.soft, wire).val[1]).val[2]
  /\ ret.val[2] = FALSE
  /\ Len(ret.val[1]) > 0

\* C4 as stated: ConcatenatedViterbiRS.encode(x) returns two values, the
\* doubly-encoded bitstring and the Reed-Solomon-only encoding.
C4_EncodeReturnsBoth ==
  (IsCat /\ pc = "encoded")
    => LET rs_encoded == ReedSolomon_encode(self.n, self.k, msg)
       IN  ret.val = << Viterbi_encode(self.vk, rs_encoded), rs_encoded >>

\* whether Viterbi.decode takes its degraded path on the input
Degraded(k, input) == Len(input.v) % 2 # 0 \/ Len(input.v) < k

\* C5 as stated: for a type-valid observed sequence of odd length or of
\* length below k, Viterbi.decode does not invoke the Decoder, raises
\* nothing and returns (z, false), z all '0' and len(z) = observed_length - k.
C5_DegradedLengthExact ==
  (IsViterbi /\ pc = "decoded" /\ ~TypeError(self.soft, wire) /\ Degraded(self.vk, wire))
    => /\ ret.exc = "none" /\ ~ret.trellis
       /\ ret.val[2] = FALSE
       /\ \A i \in 1..Len(ret.val[1]) : ret.val[1][i] = 0
       /\ Len(ret.val[1]) = Len(wire.v) - self.vk

\* C5 as amended: the same, with len(z) = max(0, observed_length - k): z is
\* empty when the observed sequence is shorter than k.
C5_Degraded ==
  (IsViterbi /\ pc = "decoded" /\ ~TypeError(self.soft, wire) /\ Degraded(self.vk, wire))
    => /\ ret.exc = "none" /\ ~ret.trellis
       /\ ret.val[2] = FALSE
       /\ \A i \in 1..Len(ret.val[1]) : ret.val[1][i] = 0
       /\ Len(ret.val[1]) = Max(0, Len(wire.v) - self.vk)

C5_Witness ==
  /\ IsViterbi /\ pc = "decoded" /\ ~TypeError(self.soft, wire)
  /\ self.vk = 5 /\ Len(wire.v) = 7
  /\ ret = Return(<< << 0, 0 >>, FALSE >>)

\* C6: ReedSolomon.decode never raises on uncorrectable data: a codeword
\* whose library decode fails contributes its uncorrected first k symbols,
\* every codeword contributes exactly k*8 bits, and the flag is true iff no
\* codeword failed.
C6_BestEffort ==
  (IsRS /\ pc = "decoded")
    => LET codewords == bitstring_to_codewords(self.n, wire.v)
           failed(i) == ~RSCoder_decode(self.n, self.k, codewords[i]).ok
           part(i)   == SubSeq(ret.val[1], (i - 1) * self.k * 8 + 1, i * self.k * 8)
       IN  /\ ret.exc = "none"
           /\ Len(ret.val[1]) = Len(codewords) * self.k * 8
           /\ ret.val[2] = (\A i \in 1..Len(codewords) : ~failed(i))
           /\ \A i \in 1..Len(codewords) :
                failed(i) => part(i) = ascii_to_bitstring(SubSeq(codewords[i], 1, self.k))

\* the first codeword fails, the last one does not
C6_Witness ==
  /\ IsRS /\ pc = "decoded" /\ ret.exc = "none"
  /\ self.n = 5 /\ self.k = 3
  /\ Len(wire.v) = 80
  /\ LET codewords == bitstring_to_codewords(self.n, wire.v)
     IN  /\ ~RSCoder_decode(self.n, self.k, codewords[1]).ok
         /\ RSCoder_decode(self.n, self.k, codewords[2]).ok
  /\ ret.val[2] = FALSE
  /\ Len(ret.val[1]) = 48

\* the number of positions at which two words of the same length differ
Distance(a, b) == Cardinality({i \in 1..Len(a) : a[i] # b[i]})

\* every codeword of the received stream is within t symbols of the one sent
WithinBound(n, k, sent, received) ==
  LET cs == bitstring_to_codewords(n, sent)
      cr == bitstring_to_codewords(n, received)
  IN  /\ Len(sent) = Len(received)
      /\ \A i \in 1..Len(cs) : Distance(cs[i], cr[i]) <= (n - k) \div 2

\* C7: when at most t = floor((n-k)/2) symbols of every codeword produced by
\* ReedSolomon.encode are altered, ReedSolomon.decode returns the original
\* data symbols exactly, and correctable = true.
C7_CorrectionBound ==
  (IsRS /\ pc = "decoded"
        /\ WithinBound(self.n, self.k, ReedSolomon_encode(self.n, self.k, msg), wire.v))
    => (ret.exc = "none" /\ ret.val = << PaddedTo(msg, self.k * 8), TRUE >>)

\* two data symbols of one codeword of a t = 2 code were altered
C7_Witness ==
  /\ IsRS /\ pc = "decoded"
  /\ self.n = 5 /\ self.k = 1 /\ Len(msg) = 16
  /\ LET cs == bitstring_to_codewords(self.n, ReedSolomon_encode(self.n, self.k, msg))
         cr == bitstring_to_codewords(self.n, wire.v)
     IN  /\ cs[1][1] # cr[1][1]
         /\ Distance(cs[1], cr[1]) = 2
         /\ Distance(cs[2], cr[2]) = 0
  /\ ret.val = << msg, TRUE >>

\* the input is of the wrong type for the mode
WrongInputType ==
  \/ self.soft /\ wire.ty # "list"
  \/ self.soft /\ \E i \in 1..Len(wire.et) : wire.et[i] # "float"
  \/ ~self.soft /\ wire.ty # "str"

\* C8: Viterbi.decode and ConcatenatedViterbiRS.decode raise ValueError for an
\* input that is not a list, or holds a non-float, in soft mode, and for an
\* input that is not a string in hard mode; before any pairing, trellis or
\* Reed-Solomon decoding, with no result and no flag returned.
C8_TypeValidation ==
  ((IsViterbi \/ IsCat) /\ pc = "decoded" /\ WrongInputType)
    => /\ ret.exc = "ValueError"
       /\ ret.val = << >>
       /\ ~ret.trellis /\ ~ret.rsdec

\* a list of floats but for one int, in soft mode, with enough elements to decode
C8_Witness ==
  /\ IsCat /\ pc = "decoded" /\ self.soft
  /\ wire.ty = "list" /\ Len(wire.v) = 48
  /\ wire.et[1] = "int" /\ \A i \in 2..Len(wire.et) : wire.et[i] = "float"
  /\ ret.exc = "ValueError"

C10_StrengthIsFloor ==
  (IsRS /\ pc = "strength")
    => /\ ret.val[1].den = 1
       /\ ret.val[1].num = (self.n - self.k) \div 2

\* C12: ReedSolomon.check(m) reports the number of bit positions at which m
\* and the bitstring recovered by decode(encode(m)) differ: 0 for an
\* uncorrupted round trip.
C12_CheckCountsBitErrors ==
  (IsRS /\ pc = "checked")
    => LET decoded == ReedSolomon_decode(self.n, self.k,
                        ReedSolomon_encode(self.n, self.k, msg)).val[1]
           differ  == {i \in 1..Min(Len(msg), Len(decoded)) : msg[i] # decoded[i]}
       IN  ret.val = << Cardinality(differ) >>

\* the result of encode(m) on an instance just constructed with configuration c
EncodeAlone(c, m) ==
  CASE c.cls = "Viterbi"     -> Return(<< Viterbi_encode(c.vk, m) >>)
    [] c.cls = "ReedSolomon" -> Return(<< ReedSolomon_encode(c.n, c.k, m) >>)
    [] OTHER                 -> ConcatenatedViterbiRS_encode(c.vk, c.n, c.k, m)

\* the result of decode(w) on an instance just constructed with configuration c
DecodeAlone(c, w) ==
  CASE c.cls = "Viterbi"     -> Viterbi_decode(c.vk, c.soft, w)
    [] c.cls = "ReedSolomon" -> ReedSolomon_decode(c.n, c.k, w.v)
    [] OTHER                 -> ConcatenatedViterbiRS_decode(c.vk, c.n, c.k, c.soft, w)

\* the instance still has configuration c, and the call that just returned
\* gave what it gives on a fresh instance of configuration c
AsFresh(c) ==
  IF self # c THEN FALSE
  ELSE CASE pc = "encoded" -> ret = EncodeAlone(c, msg)
         [] pc = "decoded" -> ret = DecodeAlone(c, wire)
         [] OTHER          -> TRUE

=============================================================================
